---- MODULE Spec2Model ----
(***************************************************************************)
(* Model of aztk's node-data bundle builder (NodeData) and plugin registry *)
(* (PluginManager).                                                        *)
(*                                                                         *)
(* Paths are sequences of path components; an absolute path starts with    *)
(* the component "/".  File contents are sequences of characters drawn     *)
(* from {"CR", "LF", "x"}.                                                 *)
(***************************************************************************)
EXTENDS Integers, Sequences, FiniteSets, TLC

VARIABLES
    plugins,      \* PluginManager.plugins: dict name -> expanded definition
    loadedFrom,   \* history: name -> [path, files] of the latest successful load
    result,       \* outcome of the latest registry call
    loadLog,      \* paths load_plugin was called on by the latest load_all_plugins
    cluster_config, \* NodeData.cluster_config
    disk,         \* content of every source file on the local disk
    missing,      \* source paths that do not exist on the local disk
    pc,           \* position of the build in add_core / the with statement
    zipf,         \* NodeData.zipf: the entries written so far, in order
    handle,       \* "none", "open" or "closed": state of the ZipFile handle
    closeCount,   \* number of ZipFile.close() calls
    error,        \* the exception that aborted the build, or "none"
    lastOp        \* the latest archive operation

regVars == <<plugins, loadedFrom, result, loadLog>>
buildVars == <<cluster_config, disk, missing, pc, zipf, handle, closeCount, error, lastOp>>
vars == <<plugins, loadedFrom, result, loadLog, cluster_config, disk, missing, pc, zipf, handle, closeCount, error, lastOp>>

(***************************************************************************)
(* Bounds                                                                  *)
(***************************************************************************)
MaxFiles == 2
MaxListing == 2
MaxScripts == 2
MaxPlugins == 2
MaxLen == 3
MaxEntries == 2

(***************************************************************************)
(* Sequences and paths                                                     *)
(***************************************************************************)
SeqsUpTo(S, n) == UNION {[1..k -> S] : k \in 0..n}

Range(s) == {s[i] : i \in 1..Len(s)}

IsAbs(p) == p # <<>> /\ p[1] = "/"

\* os.path.join(a, b): an absolute second argument discards the first
Join(a, b) == IF IsAbs(b) THEN b ELSE a \o b

CWD == <<"/", "cwd">>

\* os.path.abspath(path)
AbsPath(p) == IF IsAbs(p) THEN p ELSE CWD \o p

\* os.path.basename(path) / Path(path).name
BaseName(p) == p[Len(p)]

(***************************************************************************)
(* Plugin registry (plugin_manager.py)                                     *)
(***************************************************************************)
PluginEntryPoint == "main.py"

InvalidPluginDefinition == "InvalidPluginDefinition"

PluginNames == {"ganglia", "jupyter"}

DeclaredFiles == {<<"run.sh">>, <<"etc", "gmond.conf">>}

\* values the entry point's definition() may return
PluginDefinitions ==
    [type : {"PluginDefinition"}, name : PluginNames,
     files : SeqsUpTo(DeclaredFiles, MaxFiles), execute : {"run.sh"}]

NotADefinition == [type |-> "dict", name |-> "ganglia", files |-> <<>>, execute |-> ""]

\* what load_plugin can find at a path: whether the path exists, which files
\* it holds, whether the executed module has an attribute "definition" and
\* what calling it returns
Modules ==
    {[exists |-> FALSE, entries |-> {}, hasDefinition |-> FALSE, returns |-> NotADefinition],
     [exists |-> TRUE, entries |-> {}, hasDefinition |-> FALSE, returns |-> NotADefinition],
     [exists |-> TRUE, entries |-> {PluginEntryPoint}, hasDefinition |-> FALSE, returns |-> NotADefinition],
     [exists |-> TRUE, entries |-> {PluginEntryPoint}, hasDefinition |-> TRUE, returns |-> NotADefinition]}
    \cup [exists : {TRUE}, entries : {{PluginEntryPoint}}, hasDefinition : {TRUE},
          returns : PluginDefinitions]

PluginPaths == {<<"user", "jupyter">>}

BasePlugins == <<"/", "aztk", "base_plugins">>

Folders == {"ganglia", "jupyter", "README.md"}

\* the part of a module that decides whether the load fails
Aspects(m) ==
    [exists |-> m.exists, hasEntry |-> PluginEntryPoint \in m.entries,
     hasDefinition |-> m.hasDefinition, returnType |-> m.returns.type]

NoCall == [op |-> "none", error |-> "none", input |-> Aspects(CHOOSE m \in Modules : ~m.exists),
           name |-> "none", replaced |-> FALSE, listing |-> <<>>]

EmptyRegistry == [n \in {} |-> "None"]

has_plugin(reg, name) == name \in DOMAIN reg

\* dict.get: <<definition>>, or <<>> for None
get_plugin(reg, name) == IF name \in DOMAIN reg THEN <<reg[name]>> ELSE <<>>

\* _get_entry_point: the error it raises, or "none"
get_entry_point(m) ==
    IF ~m.exists THEN InvalidPluginDefinition
    ELSE IF PluginEntryPoint \notin m.entries THEN InvalidPluginDefinition
    ELSE "none"

validate_plugin_module_skip(m) == "none"

\* _validate_plugin_module: the error it raises, or "none"
validate_plugin_module(m) ==
    IF ~m.hasDefinition THEN InvalidPluginDefinition ELSE "none"

\* _load_plugin_module: the error it raises, or "none"
load_plugin_module(m) ==
    IF get_entry_point(m) # "none" THEN get_entry_point(m)
    ELSE validate_plugin_module(m)

\* load_plugin up to the type check: the error it raises, or "none"
load_error(m) ==
    IF load_plugin_module(m) # "none" THEN load_plugin_module(m)
    ELSE IF ~m.hasDefinition THEN "AttributeError"
    ELSE IF m.returns.type # "PluginDefinition" THEN InvalidPluginDefinition
    ELSE "none"

expand_definition_merge(path, definition, reg) ==
    [definition EXCEPT !.files =
        (IF definition.name \in DOMAIN reg THEN reg[definition.name].files ELSE <<>>)
        \o [i \in 1..Len(definition.files) |-> Join(path, definition.files[i])]]

\* _expand_definition
expand_definition(path, definition, reg) ==
    [definition EXCEPT !.files = [i \in 1..Len(definition.files) |-> Join(path, definition.files[i])]]

store_early(reg, path, m) ==
    IF m.exists /\ PluginEntryPoint \in m.entries /\ m.hasDefinition
    THEN (m.returns.name :> expand_definition(AbsPath(path), m.returns, reg)) @@ reg
    ELSE reg

\* the registry after load_plugin(path) finds module m
store(reg, path, m) ==
    IF load_error(m) # "none" THEN reg
    ELSE (m.returns.name :> expand_definition(AbsPath(path), m.returns, reg)) @@ reg

\* the history after load_plugin(path) finds module m
remember(hist, path, m) ==
    IF load_error(m) # "none" THEN hist
    ELSE (m.returns.name :> [path |-> AbsPath(path), files |-> m.returns.files]) @@ hist

\* PluginManager.load_plugin(path), finding module m at the path
load_plugin(path, m) ==
    /\ plugins' = store(plugins, path, m)
    /\ loadedFrom' = remember(loadedFrom, path, m)
    /\ result' = [op |-> "load", error |-> load_error(m), input |-> Aspects(m),
                  name |-> IF load_error(m) = "none" THEN m.returns.name ELSE "none",
                  replaced |-> load_error(m) = "none" /\ m.returns.name \in DOMAIN plugins,
                  listing |-> <<>>]
    /\ loadLog' = <<>>
    /\ UNCHANGED buildVars

LoadPlugin == \E path \in PluginPaths, m \in Modules : load_plugin(path, m)

\* what os.listdir(directory) can return: the entries of the directory in
\* any order, each with what load_plugin finds there (a plain file is an
\* existing path without an entry file)
ListedModules ==
    {m \in Modules :
        /\ m.exists
        /\ PluginEntryPoint \in m.entries => m.returns.type = "PluginDefinition"
        /\ m.returns.type = "PluginDefinition" =>
              m.returns.name = "ganglia" /\ m.returns.files = <<<<"run.sh">>>>}

Listings ==
    {l \in SeqsUpTo([folder : Folders, module : ListedModules], MaxListing) :
        \A i, j \in 1..Len(l) : l[i].folder = l[j].folder => i = j}

load_all_from_tolerant(listing, i, acc) ==
    LET step(a, e) ==
            [reg |-> store(a.reg, Join(BasePlugins, <<e.folder>>), e.module),
             hist |-> remember(a.hist, Join(BasePlugins, <<e.folder>>), e.module),
             log |-> Append(a.log, Join(BasePlugins, <<e.folder>>)),
             error |-> IF a.error # "none" THEN a.error ELSE load_error(e.module)]
        fold[k \in 0..Len(listing)] == IF k = 0 THEN acc ELSE step(fold[k - 1], listing[k])
    IN fold[Len(listing)]

\* the loop of load_all_plugins from entry i on: registry, history, log of
\* load_plugin calls and the error that left the loop
RECURSIVE load_all_from(_, _, _)
load_all_from(listing, i, acc) ==
    IF i > Len(listing) THEN acc
    ELSE LET path == Join(BasePlugins, <<listing[i].folder>>)
             m == listing[i].module
             called == [acc EXCEPT !.log = Append(acc.log, path)]
         IN IF load_error(m) # "none"
            THEN [called EXCEPT !.error = load_error(m)]
            ELSE load_all_from(listing, i + 1,
                     [called EXCEPT !.reg = store(acc.reg, path, m),
                                    !.hist = remember(acc.hist, path, m)])

\* PluginManager.load_all_plugins(directory), os.listdir returning listing
load_all_plugins(listing) ==
    LET out == load_all_from(listing, 1,
                   [reg |-> plugins, hist |-> loadedFrom, log |-> <<>>, error |-> "none"])
    IN /\ plugins' = out.reg
       /\ loadedFrom' = out.hist
       /\ loadLog' = out.log
       /\ result' = [op |-> "load_all", error |-> out.error, input |-> NoCall.input,
                     name |-> "none", replaced |-> FALSE,
                     listing |-> [i \in 1..Len(listing) |->
                                    [path |-> Join(BasePlugins, <<listing[i].folder>>),
                                     aspects |-> Aspects(listing[i].module)]]]
       /\ UNCHANGED buildVars

LoadAllPlugins == \E listing \in Listings : load_all_plugins(listing)

\* plugin_manager = PluginManager()
InitRegistry ==
    /\ plugins = EmptyRegistry
    /\ loadedFrom = EmptyRegistry
    /\ result = NoCall
    /\ loadLog = <<>>

(***************************************************************************)
(* Text handling (node_data.py)                                            *)
(***************************************************************************)
Chars == {"CR", "LF", "x"}

read_text_raw(c) == c

\* io.open(path, 'r').read(): text mode with the default newline=None
\* translates "\r\n" and a lone "\r" to "\n"
RECURSIVE read_text(_)
read_text(c) ==
    IF c = <<>> THEN <<>>
    ELSE IF c[1] = "CR"
         THEN IF Len(c) >= 2 /\ c[2] = "LF"
              THEN <<"LF">> \o read_text(SubSeq(c, 3, Len(c)))
              ELSE <<"LF">> \o read_text(Tail(c))
         ELSE <<c[1]>> \o read_text(Tail(c))

\* str.replace('\r\n', '\n'): left to right, non-overlapping
RECURSIVE replace_crlf(_)
replace_crlf(c) ==
    IF c = <<>> THEN <<>>
    ELSE IF Len(c) >= 2 /\ c[1] = "CR" /\ c[2] = "LF"
         THEN <<"LF">> \o replace_crlf(SubSeq(c, 3, Len(c)))
         ELSE <<c[1]>> \o replace_crlf(Tail(c))

\* f.read().replace('\r\n', '\n')
normalized(c) == replace_crlf(read_text(c))

(***************************************************************************)
(* Bundle builder (node_data.py)                                           *)
(***************************************************************************)
ROOT_PATH == <<"/", "aztk">>

NODE_SCRIPT_FOLDER == "node_scripts"

CUSTOM_SCRIPT_FOLDER == "custom-scripts"

CUSTOM_SCRIPT_METADATA_FILE == "custom-scripts.yaml"

NoError == [kind |-> "none", stage |-> "none"]

\* the files os.walk finds under ROOT_PATH/node_scripts: the folder relative
\* to the walked directory (os.path.relpath gives "." for the top) and the name
NodeScriptTree ==
    <<[folder |-> <<".">>, file |-> "setup_node.sh"],
      [folder |-> <<".">>, file |-> "install.pyc"],
      [folder |-> <<"docker">>, file |-> "run.sh"]>>

\* fnmatch.fnmatch over the file names and patterns of the model
fnmatch(filename, pattern) == <<filename, pattern>> \in {<<"install.pyc", "*.pyc">>}

\* _includeFile
includeFile(filename, exclude) == \A pattern \in exclude : ~fnmatch(filename, pattern)

\* os.path.join(base, file) for a walked file
WalkedPath(path, item) ==
    IF item.folder = <<".">> THEN path \o <<item.file>> ELSE path \o item.folder \o <<item.file>>

UtilityPath == ROOT_PATH \o <<"aztk", "utils", "command_builder.py">>

ScriptPaths == {<<"/", "home", "a", "foo.sh">>, <<"/", "home", "b", "foo.sh">>, <<"/", "home", "bar.sh">>}

CustomScripts ==
    {[script |-> <<"/", "home", "a", "foo.sh">>, run_on |-> "master"],
     [script |-> <<"/", "home", "b", "foo.sh">>, run_on |-> "worker"],
     [script |-> <<"/", "home", "bar.sh">>, run_on |-> "all-nodes"],
     [script |-> <<"/", "home", "a", "foo.sh">>, run_on |-> "worker"]}

GangliaPath == <<"/", "opt", "ganglia">>

\* plugin objects a PluginConfiguration resolves to: the expanded definition
\* of the registry, the plugin's path and the configured arguments
Plugins ==
    {[name |-> "ganglia", path |-> GangliaPath, args |-> "port=80",
      definition |-> [files |-> <<GangliaPath \o <<"run.sh">>, GangliaPath \o <<"etc", "gmond.conf">>>>,
                      execute |-> "run.sh", run_on |-> "master"]],
     [name |-> "jupyter", path |-> <<"/", "opt", "jupyter">>, args |-> "",
      definition |-> [files |-> <<<<"/", "opt", "jupyter", "notebook.json">>>>,
                      execute |-> "", run_on |-> "all-nodes"]],
     [name |-> "hdfs", path |-> <<"/", "opt", "hdfs">>, args |-> "",
      definition |-> [files |-> <<>>, execute |-> "hdfs.sh", run_on |-> "worker"]]}

PubKey == <<"x", "LF">>

PrivKey == <<"x", "CR", "LF">>

NoSpark ==
    [present |-> FALSE, spark_defaults_conf |-> <<>>, spark_env_sh |-> <<>>, core_site_xml |-> <<>>,
     jars |-> <<>>, ssh_key_pair |-> [pub_key |-> <<>>, priv_key |-> <<>>]]

SparkConfigurations ==
    {NoSpark,
     [present |-> TRUE, spark_defaults_conf |-> <<"/", "cfg", "spark-defaults.conf">>,
      spark_env_sh |-> <<"/", "cfg", "spark-env.sh">>, core_site_xml |-> <<>>,
      jars |-> <<<<"/", "cfg", "lib.jar">>>>,
      ssh_key_pair |-> [pub_key |-> PubKey, priv_key |-> PrivKey]]}

NoUser == [present |-> FALSE, username |-> "", password |-> "", ssh_key |-> ""]

UserConfigurations ==
    {NoUser, [present |-> TRUE, username |-> "alice", password |-> "hunter2", ssh_key |-> "ssh-rsa AAAA"]}

ClusterConfigurations ==
    [custom_scripts : SeqsUpTo(CustomScripts, MaxScripts),
     plugins : SeqsUpTo(Plugins, MaxPlugins),
     spark_configuration : SparkConfigurations,
     user_configuration : UserConfigurations,
     cluster_id : {"cluster1"}]

\* every source path the builder may read
SourcePaths ==
    ScriptPaths
    \cup UNION {Range(p.definition.files) : p \in Plugins}
    \cup {WalkedPath(ROOT_PATH \o <<NODE_SCRIPT_FOLDER>>, NodeScriptTree[i]) : i \in 1..Len(NodeScriptTree)}
    \cup {<<"/", "cfg", "spark-defaults.conf">>, <<"/", "cfg", "spark-env.sh">>, <<"/", "cfg", "lib.jar">>}
    \cup {UtilityPath}

\* source paths that may be absent from the disk
MissablePaths ==
    ScriptPaths \cup {GangliaPath \o <<"run.sh">>, <<"/", "cfg", "spark-env.sh">>, UtilityPath}

BuildDisk == [p \in SourcePaths |-> <<"x", "CR", "LF", "x">>]

\* NodeData.add_file: the archive afterwards and the error raised, or "none"
add_file(z, file_path, zip_dir, binary, dsk, miss) ==
    IF file_path = <<>> THEN [zip |-> z, error |-> "none"]
    ELSE IF file_path \in miss THEN [zip |-> z, error |-> "FileNotFoundError"]
    ELSE [zip |-> Append(z, [name |-> Join(zip_dir, <<BaseName(file_path)>>),
                             data |-> IF binary THEN dsk[file_path] ELSE normalized(dsk[file_path])]),
          error |-> "none"]

\* NodeData.add_files
RECURSIVE add_files(_, _, _, _, _, _)
add_files(z, file_paths, zip_dir, binary, dsk, miss) ==
    IF file_paths = <<>> THEN [zip |-> z, error |-> "none"]
    ELSE LET r == add_file(z, Head(file_paths), zip_dir, binary, dsk, miss)
         IN IF r.error # "none" THEN r
            ELSE add_files(r.zip, Tail(file_paths), zip_dir, binary, dsk, miss)

\* NodeData.add_dir over the files os.walk(path) yields
RECURSIVE add_dir(_, _, _, _, _)
add_dir(z, path, tree, exclude, dsk) ==
    IF tree = <<>> THEN z
    ELSE LET item == Head(tree)
             added == IF includeFile(item.file, exclude)
                      THEN Append(z, [name |-> Join(item.folder, <<item.file>>),
                                      data |-> normalized(dsk[WalkedPath(path, item)])])
                      ELSE z
         IN add_dir(added, path, Tail(tree), exclude, dsk)

new_file_name_plain(index, script) == BaseName(script)

\* str(index) + '_' + os.path.basename(custom_script.script)
new_file_name(index, script) == ToString(index) \o "_" \o BaseName(script)

\* the loop of _add_custom_scripts from the script at position i (index i - 1);
\* run_on targets are strings, which str() returns as they are
RECURSIVE custom_scripts_loop(_, _, _, _, _, _)
custom_scripts_loop(z, scripts, i, data, dsk, miss) ==
    IF i > Len(scripts) THEN [zip |-> z, error |-> "none", data |-> data]
    ELSE LET name == new_file_name(i - 1, scripts[i].script)
             appended == Append(data, [script |-> name, runOn |-> scripts[i].run_on])
         IN IF scripts[i].script \in miss
            THEN [zip |-> z, error |-> "InvalidCustomScriptError", data |-> appended]
            ELSE custom_scripts_loop(
                     Append(z, [name |-> <<CUSTOM_SCRIPT_FOLDER, name>>,
                                data |-> normalized(dsk[scripts[i].script])]),
                     scripts, i + 1, appended, dsk, miss)

\* NodeData._add_custom_scripts
add_custom_scripts(z, scripts, dsk, miss) ==
    LET r == custom_scripts_loop(z, scripts, 1, <<>>, dsk, miss)
    IN IF r.error # "none" THEN [zip |-> r.zip, error |-> r.error]
       ELSE [zip |-> Append(r.zip, [name |-> <<CUSTOM_SCRIPT_FOLDER, CUSTOM_SCRIPT_METADATA_FILE>>,
                                    data |-> [format |-> "yaml", value |-> r.data]]),
             error |-> "none"]

\* plugin.process_args(plugin_conf.args)
process_args(args) == [processed |-> args]

has_execute_always(definition) == TRUE

\* if definition.execute:
has_execute(definition) == definition.execute # ""

\* the record _add_plugins appends for a plugin
manifest_record(plugin) ==
    [name |-> plugin.name,
     execute |-> plugin.name \o "/" \o plugin.definition.execute,
     args |-> process_args(plugin.args),
     runOn |-> plugin.definition.run_on]

\* the loop of _add_plugins from plugin i on; bound tells whether the local
\* name zipf has been assigned
RECURSIVE plugins_loop(_, _, _, _, _, _, _)
plugins_loop(z, plugs, i, data, bound, dsk, miss) ==
    IF i > Len(plugs) THEN [zip |-> z, error |-> "none", data |-> data, bound |-> bound]
    ELSE LET plugin == plugs[i]
             files == [k \in 1..Len(plugin.definition.files) |->
                          Join(plugin.path, plugin.definition.files[k])]
             r == add_files(z, files, <<"plugins", plugin.name>>, FALSE, dsk, miss)
         IN IF r.error # "none"
            THEN [zip |-> r.zip, error |-> r.error, data |-> data, bound |-> bound]
            ELSE plugins_loop(r.zip, plugs, i + 1,
                     IF has_execute(plugin.definition)
                     THEN Append(data, manifest_record(plugin)) ELSE data,
                     bound \/ files # <<>>, dsk, miss)

\* NodeData._add_plugins: "return zipf" reads a local name that is assigned
\* only inside the loop over the plugins' files
add_plugins(z, plugs, dsk, miss) ==
    LET r == plugins_loop(z, plugs, 1, <<>>, FALSE, dsk, miss)
    IN IF r.error # "none" THEN [zip |-> r.zip, error |-> r.error]
       ELSE [zip |-> Append(r.zip, [name |-> <<"plugins", "plugins-manifest.json">>,
                                    data |-> [format |-> "json", value |-> r.data]]),
             error |-> IF r.bound THEN "none" ELSE "UnboundLocalError"]

\* NodeData._add_spark_configuration
add_spark_configuration(z, spark_configuration, dsk, miss) ==
    IF ~spark_configuration.present THEN [zip |-> z, error |-> "none"]
    ELSE LET conf == add_files(z, <<spark_configuration.spark_defaults_conf,
                                    spark_configuration.spark_env_sh,
                                    spark_configuration.core_site_xml>>,
                               <<"conf">>, FALSE, dsk, miss)
             keys == conf.zip \o <<[name |-> <<"id_rsa.pub">>, data |-> spark_configuration.ssh_key_pair.pub_key],
                                   [name |-> <<"id_rsa">>, data |-> spark_configuration.ssh_key_pair.priv_key]>>
         IN IF conf.error # "none" THEN conf
            ELSE add_files(keys, spark_configuration.jars, <<"jars">>, TRUE, dsk, miss)

\* secure_utils.encrypt_password(public_key, password)
encrypt_password(pub_key, password) ==
    <<[part |-> "aes_session_key", key |-> pub_key], [part |-> "nonce", key |-> pub_key],
      [part |-> "tag", key |-> pub_key], [part |-> "ciphertext", key |-> pub_key]>>

\* NodeData._add_user_conf: the public key is read from spark_configuration
\* whether or not that section is present
add_user_conf(z, config) ==
    IF ~config.user_configuration.present THEN [zip |-> z, error |-> "none"]
    ELSE IF ~config.spark_configuration.present THEN [zip |-> z, error |-> "AttributeError"]
    ELSE LET enc == encrypt_password(config.spark_configuration.ssh_key_pair.pub_key,
                                     config.user_configuration.password)
         IN [zip |-> Append(z, [name |-> <<"user.yaml">>,
                                data |-> [format |-> "yaml",
                                          value |-> [username |-> config.user_configuration.username,
                                                     password |-> enc[4],
                                                     ssh_key |-> config.user_configuration.ssh_key,
                                                     aes_session_key |-> enc[1],
                                                     cipher_aes_nonce |-> enc[2],
                                                     tag |-> enc[3],
                                                     cluster_id |-> config.cluster_id]]]),
             error |-> "none"]

(***************************************************************************)
(* A build: NodeData(cluster_config) used as a context manager             *)
(***************************************************************************)
NoOp == [op |-> "none", first |-> 1, source |-> <<>>]

\* a stage of add_core: out is the archive it leaves and the error it raises
Stage(stage, next, out) ==
    /\ pc = stage
    /\ zipf' = out.zip
    /\ IF out.error = "none"
       THEN pc' = next /\ error' = error
       ELSE pc' = "failed" /\ error' = [kind |-> out.error, stage |-> stage]
    /\ lastOp' = [op |-> stage, first |-> Len(zipf) + 1, source |-> <<>>]
    /\ UNCHANGED <<cluster_config, disk, missing, handle, closeCount>>
    /\ UNCHANGED regVars

\* NodeData.__init__: opens the ZipFile
Construct ==
    /\ pc = "new"
    /\ handle' = "open"
    /\ zipf' = <<>>
    /\ pc' = "node_scripts"
    /\ UNCHANGED <<cluster_config, disk, missing, closeCount, error, lastOp>>
    /\ UNCHANGED regVars

\* NodeData._add_node_scripts
AddNodeScripts ==
    Stage("node_scripts", "custom_scripts",
          [zip |-> add_dir(zipf, ROOT_PATH \o <<NODE_SCRIPT_FOLDER>>, NodeScriptTree, {"*.pyc"}, disk),
           error |-> "none"])

AddCustomScripts ==
    Stage("custom_scripts", "plugins",
          add_custom_scripts(zipf, cluster_config.custom_scripts, disk, missing))

AddPlugins ==
    Stage("plugins", "spark_configuration", add_plugins(zipf, cluster_config.plugins, disk, missing))

AddSparkConfiguration ==
    Stage("spark_configuration", "user_conf",
          add_spark_configuration(zipf, cluster_config.spark_configuration, disk, missing))

AddUserConf ==
    Stage("user_conf", "command_builder", add_user_conf(zipf, cluster_config))

\* the last statement of add_core; __enter__ then returns to the with body
AddCommandBuilder ==
    Stage("command_builder", "entered", add_file(zipf, UtilityPath, <<>>, FALSE, disk, missing))

\* NodeData.done
done ==
    /\ handle' = "closed"
    /\ closeCount' = closeCount + 1

\* NodeData.__exit__: runs when the with body ends, normally or by raising;
\* an exception raised inside __enter__ leaves the with statement without it
Exit ==
    /\ pc = "entered"
    /\ done
    /\ \E raised \in BOOLEAN :
          IF raised THEN pc' = "failed" /\ error' = [kind |-> "Exception", stage |-> "body"]
          ELSE pc' = "done" /\ error' = error
    /\ UNCHANGED <<cluster_config, disk, missing, zipf, lastOp>>
    /\ UNCHANGED regVars

Init ==
    /\ InitRegistry
    /\ cluster_config \in ClusterConfigurations
    /\ disk = BuildDisk
    /\ missing \in {{}} \cup {{p} : p \in MissablePaths}
    /\ pc = "new"
    /\ zipf = <<>>
    /\ handle = "none"
    /\ closeCount = 0
    /\ error = NoError
    /\ lastOp = NoOp

Next ==
    \/ Construct
    \/ AddNodeScripts
    \/ AddCustomScripts
    \/ AddPlugins
    \/ AddSparkConfiguration
    \/ AddUserConf
    \/ AddCommandBuilder
    \/ Exit

Spec == Init /\ [][Next]_vars

(***************************************************************************)
(* The registry on its own                                                 *)
(***************************************************************************)
IdleConfig ==
    [custom_scripts |-> <<[script |-> <<"/", "home", "a", "foo.sh">>, run_on |-> "master"]>>,
     plugins |-> <<>>, spark_configuration |-> NoSpark, user_configuration |-> NoUser,
     cluster_id |-> "cluster1"]

InitR ==
    /\ InitRegistry
    /\ cluster_config = IdleConfig
    /\ disk = BuildDisk
    /\ missing = {}
    /\ pc = "idle"
    /\ zipf = <<>>
    /\ handle = "none"
    /\ closeCount = 0
    /\ error = NoError
    /\ lastOp = NoOp

NextR == LoadPlugin \/ LoadAllPlugins

SpecRegistry == InitR /\ [][NextR]_vars

(***************************************************************************)
(* The archive operations on their own, over every source content          *)
(***************************************************************************)
Contents == SeqsUpTo(Chars, MaxLen)

TextSource == <<"/", "home", "a", "foo.sh">>

Direct(op, source, out) ==
    /\ pc = "direct"
    /\ Len(zipf) < MaxEntries
    /\ out.error = "none"
    /\ zipf' = out.zip
    /\ lastOp' = [op |-> op, first |-> Len(zipf) + 1, source |-> source]
    /\ UNCHANGED <<cluster_config, disk, missing, pc, handle, closeCount, error>>
    /\ UNCHANGED regVars

\* add_file(file_path, zip_dir, binary=False)
AddFileText == Direct("add_file_text", TextSource, add_file(zipf, TextSource, <<"conf">>, FALSE, disk, missing))

\* add_file(file_path, zip_dir, binary=True)
AddFileBinary == Direct("add_file_binary", TextSource, add_file(zipf, TextSource, <<"jars">>, TRUE, disk, missing))

\* add_dir(path, exclude)
AddDir ==
    Direct("add_dir", ROOT_PATH \o <<NODE_SCRIPT_FOLDER>>,
           [zip |-> add_dir(zipf, ROOT_PATH \o <<NODE_SCRIPT_FOLDER>>, NodeScriptTree, {"*.pyc"}, disk),
            error |-> "none"])

\* the copy made by _add_custom_scripts
CopyCustomScripts ==
    Direct("custom_scripts", TextSource, add_custom_scripts(zipf, cluster_config.custom_scripts, disk, missing))

\* zipf.writestr(name, content)
WriteStr ==
    Direct("writestr", TextSource,
           [zip |-> Append(zipf, [name |-> <<"id_rsa">>, data |-> disk[TextSource]]), error |-> "none"])

InitT ==
    /\ InitRegistry
    /\ cluster_config = IdleConfig
    /\ disk \in {[p \in SourcePaths |-> c] : c \in Contents}
    /\ missing = {}
    /\ pc = "direct"
    /\ zipf = <<>>
    /\ handle = "open"
    /\ closeCount = 0
    /\ error = NoError
    /\ lastOp = NoOp

NextT == AddFileText \/ AddFileBinary \/ AddDir \/ CopyCustomScripts \/ WriteStr

SpecText == InitT /\ [][NextT]_vars

(***************************************************************************)
(* Properties of the registry                                              *)
(***************************************************************************)
\* the module found satisfies the plugin contract
Conforms(a) == a.exists /\ a.hasEntry /\ a.hasDefinition /\ a.returnType = "PluginDefinition"

\* C5 as stated: load_plugin reports each contract violation with its own
\* error kind: PluginNotFoundError for an absent directory,
\* PluginEntryPointMissingError for an absent entry file and
\* InvalidPluginDefinition for a missing or ill-typed definition.
C5_DistinctErrorKinds ==
    result.op = "load" =>
        /\ ~result.input.exists => result.error = "PluginNotFoundError"
        /\ result.input.exists /\ ~result.input.hasEntry =>
              result.error = "PluginEntryPointMissingError"
        /\ result.input.exists /\ result.input.hasEntry /\ ~Conforms(result.input) =>
              result.error = InvalidPluginDefinition

\* C5 amended: load_plugin reports every contract violation (directory
\* absent, entry file absent, definition missing, definition of the wrong
\* type) with the one error kind InvalidPluginDefinition, and raises nothing
\* when the contract is met.
C5_SingleErrorKind ==
    result.op = "load" =>
        result.error = (IF Conforms(result.input) THEN "none" ELSE InvalidPluginDefinition)

C5_Witness ==
    /\ result.op = "load"
    /\ result.input.exists
    /\ ~result.input.hasEntry
    /\ result.error = InvalidPluginDefinition

\* C6: the registry holds, for each name, the definition of the latest
\* successful load of that name: its files are exactly the declared files of
\* that load, each prefixed with the absolute path loaded, nothing of an
\* earlier definition merged in; a load leaves the entries of the other
\* names as they were.
C6_LastLoadWins ==
    /\ [](\A n \in DOMAIN plugins :
            /\ plugins[n].name = n
            /\ IsAbs(loadedFrom[n].path)
            /\ Len(plugins[n].files) = Len(loadedFrom[n].files)
            /\ \A i \in 1..Len(plugins[n].files) :
                  plugins[n].files[i] = loadedFrom[n].path \o loadedFrom[n].files[i])
    /\ [][result'.op = "load" =>
            \A n \in DOMAIN plugins :
                n # result'.name => n \in DOMAIN plugins' /\ plugins'[n] = plugins[n]]_vars

C6_Witness ==
    /\ result.op = "load"
    /\ result.replaced
    /\ Cardinality(DOMAIN plugins) = 2
    /\ Len(plugins[result.name].files) = 1

C10_FailedLoadKeepsRegistry ==
    [][/\ result'.op = "load" /\ result'.error # "none" =>
            \A n \in PluginNames :
                /\ has_plugin(plugins', n) = has_plugin(plugins, n)
                /\ get_plugin(plugins', n) = get_plugin(plugins, n)
       /\ result'.op = "load" /\ result'.error = "none" =>
            has_plugin(plugins', result'.name)]_vars

C10_Witness ==
    /\ result.op = "load"
    /\ result.error # "none"
    /\ result.input.returnType # "PluginDefinition"
    /\ result.input.hasDefinition
    /\ DOMAIN plugins # {}

(***************************************************************************)
(* Properties of a build                                                   *)
(***************************************************************************)
Finished == pc \in {"done", "failed"}

\* C1: every build ends with the archive handle closed exactly once,
\* whether all stages succeeded or one of them raised.
C1_ClosedOnEveryExit == Finished => handle = "closed" /\ closeCount = 1

ScenarioA ==
    [custom_scripts |-> <<[script |-> <<"/", "home", "a", "foo.sh">>, run_on |-> "master"]>>,
     plugins |-> <<>>, spark_configuration |-> NoSpark, user_configuration |-> NoUser,
     cluster_id |-> "cluster1"]

HasEntry(name) == \E i \in 1..Len(zipf) : zipf[i].name = name

EntryData(name) == zipf[CHOOSE i \in 1..Len(zipf) : zipf[i].name = name].data

\* C2: the build of a configuration with the one custom script foo.sh, an
\* empty plugin list and no Spark or user section, all of whose source files
\* exist, raises no error in add_core and leaves custom-scripts/0_foo.sh and a
\* metadata record with the single entry {script: 0_foo.sh, runOn: master}.
C2_ScenarioA ==
    (cluster_config = ScenarioA /\ missing = {} /\ Finished) =>
        /\ error.stage \in {"none", "body"}
        /\ HasEntry(<<"custom-scripts", "0_foo.sh">>)
        /\ HasEntry(<<"custom-scripts", "custom-scripts.yaml">>)
        /\ EntryData(<<"custom-scripts", "custom-scripts.yaml">>).value
              = <<[script |-> "0_foo.sh", runOn |-> "master"]>>

InCustomScripts(e) == e.name[1] = "custom-scripts"

CustomStageActed == pc \notin {"new", "node_scripts", "custom_scripts"}

AllScriptsExist ==
    \A i \in 1..Len(cluster_config.custom_scripts) : cluster_config.custom_scripts[i].script \notin missing

\* C3: when every declared custom script exists, the custom-scripts stage
\* stores the script at position i (counting from zero) at
\* custom-scripts/<i>_<basename>, then one metadata record whose i-th entry
\* is {script: <i>_<basename>, runOn: its target}, in declared order; no two
\* scripts share an archive path.
C3_CustomScriptNames ==
    (CustomStageActed /\ AllScriptsExist) =>
        LET scripts == cluster_config.custom_scripts
            n == Len(scripts)
            cs == SelectSeq(zipf, InCustomScripts)
        IN /\ Len(cs) = n + 1
           /\ \A i \in 1..n :
                 /\ cs[i].name = <<"custom-scripts", ToString(i - 1) \o "_" \o BaseName(scripts[i].script)>>
                 /\ \A j \in 1..n : cs[i].name = cs[j].name => i = j
           /\ cs[n + 1].name = <<"custom-scripts", "custom-scripts.yaml">>
           /\ Len(cs[n + 1].data.value) = n
           /\ \A i \in 1..n :
                 cs[n + 1].data.value[i] =
                     [script |-> ToString(i - 1) \o "_" \o BaseName(scripts[i].script),
                      runOn |-> scripts[i].run_on]

C3_Witness ==
    /\ CustomStageActed
    /\ AllScriptsExist
    /\ Len(cluster_config.custom_scripts) = 2
    /\ BaseName(cluster_config.custom_scripts[1].script) = BaseName(cluster_config.custom_scripts[2].script)
    /\ HasEntry(<<"custom-scripts", "0_foo.sh">>)
    /\ HasEntry(<<"custom-scripts", "1_foo.sh">>)

Executes(plugin) == plugin.definition.execute # ""

\* C4: the plugins manifest has one record per configured plugin that
\* declares an execute entry, in configured order, with execute =
\* <name>/<execute entry>; every declared file of every configured plugin,
\* with or without an execute entry, is stored under plugins/<name>/.
C4_PluginsManifest ==
    HasEntry(<<"plugins", "plugins-manifest.json">>) =>
        LET manifest == EntryData(<<"plugins", "plugins-manifest.json">>).value
            expected == SelectSeq(cluster_config.plugins, Executes)
        IN /\ Len(manifest) = Len(expected)
           /\ \A i \in 1..Len(expected) :
                 /\ manifest[i].name = expected[i].name
                 /\ manifest[i].execute = expected[i].name \o "/" \o expected[i].definition.execute
                 /\ manifest[i].runOn = expected[i].definition.run_on
           /\ \A i \in 1..Len(cluster_config.plugins) :
                 \A f \in Range(cluster_config.plugins[i].definition.files) :
                     HasEntry(<<"plugins", cluster_config.plugins[i].name, BaseName(f)>>)

C4_Witness ==
    /\ HasEntry(<<"plugins", "plugins-manifest.json">>)
    /\ Len(cluster_config.plugins) = 2
    /\ cluster_config.plugins[1].name = "jupyter"
    /\ cluster_config.plugins[2].name = "ganglia"
    /\ HasEntry(<<"plugins", "jupyter", "notebook.json">>)
    /\ Len(EntryData(<<"plugins", "plugins-manifest.json">>).value) = 1
    /\ EntryData(<<"plugins", "plugins-manifest.json">>).value[1].execute = "ganglia/run.sh"

UserStageActed ==
    \/ pc \in {"command_builder", "entered", "done"}
    \/ pc = "failed" /\ error.stage \in {"user_conf", "command_builder", "body"}

\* C7: whenever the configuration has a user section, with or without a
\* Spark section, the user-configuration stage writes the record user.yaml
\* with username, ssh key, cluster id and the four values encrypt_password
\* returned, and not the password; without a user section it writes no
\* user.yaml.
C7_UserRecord ==
    UserStageActed =>
        IF cluster_config.user_configuration.present
        THEN /\ HasEntry(<<"user.yaml">>)
             /\ LET record == EntryData(<<"user.yaml">>).value
                    enc == encrypt_password(cluster_config.spark_configuration.ssh_key_pair.pub_key,
                                            cluster_config.user_configuration.password)
                IN /\ DOMAIN record = {"username", "password", "ssh_key", "aes_session_key",
                                       "cipher_aes_nonce", "tag", "cluster_id"}
                   /\ record.username = cluster_config.user_configuration.username
                   /\ record.ssh_key = cluster_config.user_configuration.ssh_key
                   /\ record.cluster_id = cluster_config.cluster_id
                   /\ <<record.aes_session_key, record.cipher_aes_nonce, record.tag, record.password>> = enc
        ELSE ~HasEntry(<<"user.yaml">>)

(***************************************************************************)
(* Properties of the archive operations                                    *)
(***************************************************************************)
NoCRLF(c) == \A i \in 1..(Len(c) - 1) : ~(c[i] = "CR" /\ c[i + 1] = "LF")

\* C8: whatever the source content, what add_file in text mode, add_dir and
\* the custom-scripts copy store holds no CR immediately followed by LF;
\* what add_file in binary mode and a raw writestr store is the source
\* content unchanged.
C8_NoCRLF ==
    /\ lastOp.op \in {"add_file_text", "add_dir", "custom_scripts"} =>
          \A i \in lastOp.first..Len(zipf) :
              zipf[i].name # <<"custom-scripts", "custom-scripts.yaml">> => NoCRLF(zipf[i].data)
    /\ lastOp.op \in {"add_file_binary", "writestr"} =>
          /\ lastOp.first = Len(zipf)
          /\ zipf[Len(zipf)].data = disk[lastOp.source]

C8_Witness ==
    /\ lastOp.op = "add_file_text"
    /\ disk[TextSource] = <<"CR", "CR", "LF">>
    /\ zipf[Len(zipf)].data = <<"LF", "LF">>

====
